---------------------------- MODULE Spec2Model ----------------------------
(***************************************************************************)
(* One invocation of the b4sam command line tool (src/main.rs): main       *)
(* dispatches to review_code or to get_changes; get_changes runs git       *)
(* rev-parse / git merge-base / git diff; review_code sends the diff to    *)
(* the chat client and prints the review.                                  *)
(*                                                                         *)
(* Text is a sequence of cells.  A cell is one character (a one-character  *)
(* string), one raw byte that is not valid UTF-8 ("xFF"), the replacement  *)
(* character ("uFFFD"), or one ANSI escape sequence (a member of Escapes,  *)
(* which occupies no column on the terminal).                              *)
(***************************************************************************)
EXTENDS Integers, Sequences, FiniteSets, TLC

(***************************************************************************)
(* Bounds and sample inputs.                                               *)
(***************************************************************************)
\* longest Review.comments the chat boundary returns
MaxComments == 2

\* values of --against besides its absence
Revs == { <<"r">>, <<" ", "r">> }

\* what git merge-base may leave on standard output
MergeBaseStdouts == { <<>>, <<"\n">>, <<"a", "\n">>, <<" ", "b">> }

\* what git diff may leave on standard output
DiffStdouts == { <<>>, <<"d">>, <<"xFF">>, <<"d", "xFF">> }

\* exit statuses of a subprocess
Statuses == {0, 1}

\* the categories the chat boundary uses when the whole pipeline is explored
SomeTypes == {"Nitpick", "Issue"}

\* values of --prompt besides its absence
Prompts == { <<"p">> }

\* client.cost(): a usage-derived amount in cents, when usage is known
Costs == {330}

(***************************************************************************)
(* Option<T> and Result<Output, io::Error>.                                *)
(***************************************************************************)
None == [some |-> FALSE, v |-> <<>>]

Some(x) == [some |-> TRUE, v |-> x]

\* std::process::Output of a finished subprocess
Output(status, out) == [tag |-> "Ok", status |-> status, stdout |-> out, id |-> 0]

\* io::Error of the id-th external call of the invocation
IoError(id) == [tag |-> "Err", status |-> 0, stdout |-> <<>>, id |-> id]

\* no subprocess result held
NoOutput == [tag |-> "None", status |-> 0, stdout |-> <<>>, id |-> 0]

\* every result Command::output() can give to the id-th call
Outcomes(stdouts, id) ==
    {IoError(id)} \cup {Output(s, o) : s \in Statuses, o \in stdouts}

\* matches!(x, Ok(ref o) if o.status.success()), with the status ignored
SuccessAnyStatus(o) == o.tag = "Ok"

\* matches!(x, Ok(ref o) if o.status.success())
Success(o) == o.tag = "Ok" /\ o.status = 0

(***************************************************************************)
(* String helpers.                                                         *)
(***************************************************************************)
Whitespace == {" ", "\n", "\t"}

RECURSIVE TrimStart(_)
TrimStart(s) ==
    IF s # <<>> /\ Head(s) \in Whitespace THEN TrimStart(Tail(s)) ELSE s

RECURSIVE TrimEnd(_)
TrimEnd(s) ==
    IF s # <<>> /\ s[Len(s)] \in Whitespace
    THEN TrimEnd(SubSeq(s, 1, Len(s) - 1))
    ELSE s

\* str::trim
Trim(s) == TrimEnd(TrimStart(s))

\* String::from_utf8_lossy: an invalid byte becomes U+FFFD
from_utf8_lossy(bytes) ==
    [k \in 1..Len(bytes) |-> IF bytes[k] = "xFF" THEN "uFFFD" ELSE bytes[k]]

\* " ".repeat(n)
Repeat(n) == [k \in 1..n |-> " "]

Digits == <<"0", "1", "2", "3", "4", "5", "6", "7", "8", "9">>

RECURSIVE Decimal(_)
Decimal(n) ==
    IF n < 10 THEN <<Digits[n + 1]>>
    ELSE Decimal(n \div 10) \o <<Digits[(n % 10) + 1]>>

\* format!("{:.2}", cost) of an amount given in cents
FormatCost(cents) ==
    Decimal(cents \div 100) \o <<".">>
        \o <<Digits[((cents % 100) \div 10) + 1], Digits[(cents % 10) + 1]>>

(***************************************************************************)
(* The review data model (main.rs 7-45) and the renderer's tables.         *)
(***************************************************************************)
\* enum CommentType
CommentType ==
    {"Nitpick", "LeftoverDebug", "UnnecessaryComment", "StyleIssue", "Question", "Issue", "Suggestion", "Idea"}

\* impl Display for CommentType: the text write! produces
Display(t) ==
    CASE t = "Nitpick" -> <<"N", "i", "t", "p", "i", "c", "k">>
      [] t = "LeftoverDebug" -> <<"L", "e", "f", "t", "o", "v", "e", "r", "D", "e", "b", "u", "g">>
      [] t = "UnnecessaryComment" -> <<"U", "n", "n", "e", "c", "e", "s", "s", "a", "r", "y", "C", "o", "m", "m", "e", "n", "t">>
      [] t = "StyleIssue" -> <<"S", "t", "y", "l", "e", "I", "s", "s", "u", "e">>
      [] t = "Question" -> <<"Q", "u", "e", "s", "t", "i", "o", "n">>
      [] t = "Issue" -> <<"I", "s", "s", "u", "e">>
      [] t = "Suggestion" -> <<"S", "u", "g", "g", "e", "s", "t", "i", "o", "n">>
      [] t = "Idea" -> <<"I", "d", "e", "a">>

\* the color chosen by match comment.comment_type
Color(t) ==
    CASE t = "Nitpick" -> "ESC[38;5;208m"
      [] t = "LeftoverDebug" -> "ESC[38;5;9m"
      [] t = "UnnecessaryComment" -> "ESC[38;5;8m"
      [] t = "StyleIssue" -> "ESC[38;5;226m"
      [] t = "Question" -> "ESC[38;5;39m"
      [] t = "Issue" -> "ESC[38;5;196m"
      [] t = "Suggestion" -> "ESC[38;5;34m"
      [] t = "Idea" -> "ESC[38;5;141m"

\* let reset = "\x1b[0m"
reset == "ESC[0m"

\* the escape sequences: cells that take no column on the terminal
Escapes == {Color(t) : t \in CommentType} \cup {reset}

\* struct Comment; one sample per category, two of them with an excerpt
\* that has surrounding whitespace and one with a colon in its location
SampleComment(t) ==
    [comment_type |-> t,
     in |-> IF t = "Issue" THEN <<"f", ":", "1">> ELSE <<"f">>,
     line |-> IF t \in {"Nitpick", "Idea"} THEN <<" ", "x", "\n">> ELSE <<"y">>,
     comment |-> <<Display(t)[1]>>]

\* struct Review: every Vec<Comment> of at most MaxComments comments whose
\* categories are among `types`
Reviews(types) ==
    UNION {[1..n -> {SampleComment(t) : t \in types}] : n \in 0..MaxComments}

\* the comment the for loop hands to its i-th iteration, were the loop to
\* walk the vector from its end
CommentAtReversed(comments, i) == comments[Len(comments) + 1 - i]

\* the comment the for loop hands to its i-th iteration
CommentAt(comments, i) == comments[i]

\* the tag line, were the reset written at the end of the line
TagLineResetLast(c) ==
    <<Color(c.comment_type), "[">> \o Display(c.comment_type) \o <<"]">>
        \o <<" ", "i", "n", ":", " ">> \o c.in \o <<reset>>

\* println!("{}[{}]{} in: {}", color, comment_type, reset, comment.r#in)
TagLine(c) ==
    <<Color(c.comment_type), "[">> \o Display(c.comment_type) \o <<"]", reset>>
        \o <<" ", "i", "n", ":", " ">> \o c.in

\* the indentation, were it the width of the bracketed tag plus one
IndentBracketed(comment_type) == Len(comment_type) + 3

\* comment_type.len() + 1
Indent(comment_type) == Len(comment_type) + 1

\* println!("{}line: {}", " ".repeat(comment_type.len() + 1), comment.line.trim())
ExcerptLine(c) ==
    Repeat(Indent(Display(c.comment_type))) \o <<"l", "i", "n", "e", ":", " ">>
        \o Trim(c.line)

\* println!("{}{}{}\n", color, comment.comment, reset)
BodyLine(c) == <<Color(c.comment_type)>> \o c.comment \o <<reset, "\n">>

\* println!("Code Review Results [${:.2}]", cost), cost = client.cost().unwrap_or(0.0)
HeaderLine(cost) ==
    <<"C", "o", "d", "e", " ", "R", "e", "v", "i", "e", "w", " ", "R", "e", "s", "u", "l", "t", "s", " ", "[", "$">>
        \o FormatCost(IF cost.some THEN cost.v ELSE 0) \o <<"]">>

\* println!("===================\n")
Underline == <<"=", "=", "=", "=", "=", "=", "=", "=", "=", "=", "=", "=", "=", "=", "=", "=", "=", "=", "=">> \o <<"\n">>

\* let default_prompt = r#"You are a helpful assistant that reviews code. ..."#
default_prompt == <<"default_prompt">>

(***************************************************************************)
(* State of one invocation.                                                *)
(***************************************************************************)
VARIABLES
    pc,                 \* where the invocation stands
    command,            \* cli.command: "Review", "ShowDiff" or "None"
    against,            \* --against: Option<String>
    custom_prompt,      \* --prompt: Option<String>
    verbose,            \* --verbose
    merge_base_output,  \* get_changes' merge_base_output, while in scope
    base,               \* get_changes' base, once computed
    changes,            \* what get_changes returned to its caller, if Ok
    review,             \* the Review the chat request returned
    shown,              \* how many comments the for loop has printed
    stdout,             \* standard output: one entry per println!
    stderr,             \* standard error: one entry per eprintln!
    calls,              \* the external calls issued so far, in order
    result              \* what main returned

vars ==
    <<pc, command, against, custom_prompt, verbose, merge_base_output, base,
      changes, review, shown, stdout, stderr, calls, result>>

\* one external call: git (op, ref, text = revision or base) or the chat
\* boundary (op = "chat", system = system prompt, text = user content)
Call(op, ref, system, text, res) ==
    [op |-> op, ref |-> ref, system |-> system, text |-> text, res |-> res]

Running == [state |-> "running", msg |-> "", detail |-> <<>>, cause |-> 0]

\* Ok(())
OkResult == [state |-> "ok", msg |-> "", detail |-> <<>>, cause |-> 0]

\* an anyhow::Error: its message, the value formatted into it, and the
\* external call whose io::Error it wraps (0 if none)
Error(msg, detail, cause) ==
    [state |-> "err", msg |-> msg, detail |-> detail, cause |-> cause]

\* Result<String, anyhow::Error> inside get_changes
OkText(text) == [ok |-> TRUE, v |-> text, err |-> Running]

ErrText(e) == [ok |-> FALSE, v |-> <<>>, err |-> e]

\* Cli::parse(): the review subcommand takes --prompt and --against,
\* show-diff takes --against, no subcommand takes neither
Init ==
    /\ command \in {"Review", "ShowDiff", "None"}
    /\ against \in {None} \cup {Some(r) : r \in Revs}
    /\ command = "None" => against = None
    /\ custom_prompt \in {None} \cup {Some(p) : p \in Prompts}
    /\ command # "Review" => custom_prompt = None
    /\ verbose \in BOOLEAN
    /\ pc = "main"
    /\ merge_base_output = NoOutput
    /\ base = None
    /\ changes = None
    /\ review = <<>>
    /\ shown = 0
    /\ stdout = <<>>
    /\ stderr = <<>>
    /\ calls = <<>>
    /\ result = Running

\* the ? operator on an Err: main returns the error
Fail(e) ==
    /\ result' = e
    /\ pc' = "done"

\* custom_prompt.unwrap_or_else(|| default_prompt.to_string())
system_prompt == IF custom_prompt.some THEN custom_prompt.v ELSE default_prompt

\* main 143-153 and review_code 177-182: both review arms call review_code,
\* which builds the client (from_env may fail) and announces the fetch
ClientFromEnv ==
    /\ pc = "main"
    /\ command # "ShowDiff"
    /\ \E built \in BOOLEAN :
        IF built
        THEN /\ pc' = "get_changes"
             /\ stderr' = IF verbose
                          THEN Append(stderr, "Fetching changes against default branch...")
                          ELSE stderr
             /\ UNCHANGED result
        ELSE /\ Fail(Error("ChatClient::from_env", <<>>, 0))
             /\ UNCHANGED stderr
    /\ UNCHANGED <<command, against, custom_prompt, verbose, merge_base_output,
                   base, changes, review, shown, stdout, calls>>

\* control is at the top of get_changes: from review_code, or straight from
\* main's ShowDiff arm
AtGetChanges ==
    \/ pc = "get_changes"
    \/ pc = "main" /\ command = "ShowDiff"

\* commit.to_string(), were the revision trimmed on the way
ExplicitBaseTrimmed(commit) == Trim(commit)

\* main.rs 59-60: the base for an explicit revision, commit.to_string()
ExplicitBase(commit) == commit

\* main.rs 49-61: validate the explicit revision, then take it as the base
RevParse ==
    /\ AtGetChanges
    /\ against.some
    /\ \E validate \in Outcomes({<<>>, <<"c">>}, Len(calls) + 1) :
        /\ calls' = Append(calls, Call("rev-parse", "", <<>>, against.v, validate))
        /\ IF ~Success(validate)
           THEN /\ Fail(Error("Invalid git revision: {}", against.v, 0))
                /\ UNCHANGED base
           ELSE /\ base' = Some(ExplicitBase(against.v))
                /\ pc' = "diff"
                /\ UNCHANGED result
    /\ UNCHANGED <<command, against, custom_prompt, verbose, merge_base_output,
                   changes, review, shown, stdout, stderr>>

\* main.rs 74-83: from the merge-base result to the base
MergeBase(o) ==
    IF o.tag = "Err"
    THEN ErrText(Error("Failed to run git merge-base", <<>>, o.id))
    ELSE LET merge_base == Trim(from_utf8_lossy(o.stdout)) IN
         IF merge_base = <<>>
         THEN ErrText(Error("Failed to find merge base with origin/main or origin/master",
                            <<>>, 0))
         ELSE OkText(merge_base)

\* main.rs 74-84 applied to the result that is in merge_base_output
UseMergeBase(o) ==
    LET r == MergeBase(o) IN
    /\ merge_base_output' = NoOutput
    /\ IF r.ok
       THEN /\ base' = Some(r.v)
            /\ pc' = "diff"
            /\ UNCHANGED result
       ELSE /\ Fail(r.err)
            /\ UNCHANGED base

\* main.rs 62-68 (and 74-84 when the lookup succeeded): try origin/main
MergeBaseMain ==
    /\ AtGetChanges
    /\ ~against.some
    /\ \E o \in Outcomes(MergeBaseStdouts, Len(calls) + 1) :
        /\ calls' = Append(calls, Call("merge-base", "origin/main", <<>>, <<>>, o))
        /\ IF ~Success(o)
           THEN /\ merge_base_output' = o
                /\ pc' = "master"
                /\ UNCHANGED <<base, result>>
           ELSE UseMergeBase(o)
    /\ UNCHANGED <<command, against, custom_prompt, verbose, changes, review,
                   shown, stdout, stderr>>

\* the fallback, were its result not stored over the first attempt's
MergeBaseMasterStale ==
    /\ pc = "master"
    /\ \E o \in Outcomes(MergeBaseStdouts, Len(calls) + 1) :
        /\ calls' = Append(calls, Call("merge-base", "origin/master", <<>>, <<>>, o))
        /\ UseMergeBase(merge_base_output)
    /\ UNCHANGED <<command, against, custom_prompt, verbose, changes, review,
                   shown, stdout, stderr>>

\* main.rs 68-84: the origin/main lookup failed, try origin/master
MergeBaseMaster ==
    /\ pc = "master"
    /\ \E o \in Outcomes(MergeBaseStdouts, Len(calls) + 1) :
        /\ calls' = Append(calls, Call("merge-base", "origin/master", <<>>, <<>>, o))
        /\ UseMergeBase(o)
    /\ UNCHANGED <<command, against, custom_prompt, verbose, changes, review,
                   shown, stdout, stderr>>

\* main.rs 93-103, were the empty output not rejected
DiffNoEmptyCheck(diff_output) ==
    IF diff_output.tag = "Err"
    THEN ErrText(Error("Failed to run git diff", <<>>, diff_output.id))
    ELSE IF diff_output.status # 0
    THEN ErrText(Error("git diff failed with status: {}", <<diff_output.status>>, 0))
    ELSE OkText(from_utf8_lossy(diff_output.stdout))

\* main.rs 93-103, were the exit status not inspected
DiffNoStatusCheck(diff_output) ==
    IF diff_output.tag = "Err"
    THEN ErrText(Error("Failed to run git diff", <<>>, diff_output.id))
    ELSE IF diff_output.stdout = <<>>
    THEN ErrText(Error("No changes found", <<>>, 0))
    ELSE OkText(from_utf8_lossy(diff_output.stdout))

\* main.rs 93-103: from the diff result to get_changes' return value
Diff(diff_output) ==
    IF diff_output.tag = "Err"
    THEN ErrText(Error("Failed to run git diff", <<>>, diff_output.id))
    ELSE IF diff_output.status # 0
    THEN ErrText(Error("git diff failed with status: {}", <<diff_output.status>>, 0))
    ELSE IF diff_output.stdout = <<>>
    THEN ErrText(Error("No changes found", <<>>, 0))
    ELSE OkText(from_utf8_lossy(diff_output.stdout))

\* get_changes returned Ok(text): main prints it (147-148), review_code
\* announces the request (184-188)
Returned(text) ==
    /\ changes' = Some(text)
    /\ IF command = "ShowDiff"
       THEN /\ stdout' = Append(stdout, text)
            /\ result' = OkResult
            /\ pc' = "done"
            /\ UNCHANGED stderr
       ELSE /\ stderr' = IF verbose
                         THEN Append(stderr, "Sending changes to AI for review...")
                         ELSE stderr
            /\ pc' = "chat"
            /\ UNCHANGED <<stdout, result>>

\* main.rs 86-104: git diff -U30 <base> HEAD
GitDiff ==
    /\ pc = "diff"
    /\ \E diff_output \in Outcomes(DiffStdouts, Len(calls) + 1) :
        /\ calls' = Append(calls, Call("diff", "HEAD", <<>>, base.v, diff_output))
        /\ LET r == Diff(diff_output) IN
           IF r.ok
           THEN Returned(r.v)
           ELSE /\ Fail(r.err)
                /\ UNCHANGED <<changes, stdout, stderr>>
    /\ UNCHANGED <<command, against, custom_prompt, verbose, merge_base_output,
                   base, review, shown>>

\* what the chat boundary may answer: an error, or a parsed Review
ChatOutcomes(types) ==
    {[tag |-> "Err", review |-> <<>>]}
        \cup {[tag |-> "Ok", review |-> r] : r \in Reviews(types)}

\* what follows the header: the loop starts, or there is nothing to print
AfterHeader(r) ==
    IF Len(r) = 0
    THEN result' = OkResult /\ pc' = "done"
    ELSE pc' = "render" /\ UNCHANGED result

\* review_code 190-198, were the header printed before the request is made
ChatHeaderFirst(types) ==
    /\ pc = "chat"
    /\ \E answer \in ChatOutcomes(types), cost \in {None} \cup {Some(c) : c \in Costs} :
        /\ calls' = Append(calls, Call("chat", "o3", system_prompt, changes.v, answer))
        /\ stdout' = stdout \o <<HeaderLine(cost), Underline>>
        /\ IF answer.tag = "Err"
           THEN /\ Fail(Error("chat_with_system_prompt", <<>>, Len(calls) + 1))
                /\ UNCHANGED review
           ELSE /\ review' = answer.review
                /\ AfterHeader(answer.review)
    /\ UNCHANGED <<command, against, custom_prompt, verbose, merge_base_output,
                   base, changes, shown, stderr>>

\* review_code 190-198: the chat request, then the header
ChatWith(types) ==
    /\ pc = "chat"
    /\ \E answer \in ChatOutcomes(types), cost \in {None} \cup {Some(c) : c \in Costs} :
        /\ calls' = Append(calls, Call("chat", "o3", system_prompt, changes.v, answer))
        /\ IF answer.tag = "Err"
           THEN /\ Fail(Error("chat_with_system_prompt", <<>>, Len(calls) + 1))
                /\ UNCHANGED <<review, stdout>>
           ELSE /\ review' = answer.review
                /\ stdout' = stdout \o <<HeaderLine(cost), Underline>>
                /\ AfterHeader(answer.review)
    /\ UNCHANGED <<command, against, custom_prompt, verbose, merge_base_output,
                   base, changes, shown, stderr>>

\* review_code 200-223: one iteration of the loop; after the last, Ok(())
RenderComment ==
    /\ pc = "render"
    /\ shown < Len(review)
    /\ LET comment == CommentAt(review, shown + 1) IN
       stdout' = stdout \o <<TagLine(comment), ExcerptLine(comment), BodyLine(comment)>>
    /\ shown' = shown + 1
    /\ IF shown + 1 = Len(review)
       THEN result' = OkResult /\ pc' = "done"
       ELSE UNCHANGED <<pc, result>>
    /\ UNCHANGED <<command, against, custom_prompt, verbose, merge_base_output,
                   base, changes, review, stderr, calls>>

\* the chat request, answered with comments of a few categories
Chat == ChatWith(SomeTypes)

\* the chat request, answered with comments of any category
ChatAll == ChatWith(CommentType)

Next ==
    \/ ClientFromEnv
    \/ RevParse
    \/ MergeBaseMain
    \/ MergeBaseMaster
    \/ GitDiff
    \/ Chat
    \/ RenderComment

Spec == Init /\ [][Next]_vars

\* the review subcommand with an explicit revision, quietly and with the
\* default prompt
InitRender ==
    /\ Init
    /\ command = "Review"
    /\ against.some
    /\ ~custom_prompt.some
    /\ ~verbose

NextRender ==
    \/ ClientFromEnv
    \/ RevParse
    \/ GitDiff
    \/ ChatAll
    \/ RenderComment

\* the same program, restricted to the invocations of InitRender, with the
\* chat boundary free to answer with comments of all eight categories
SpecRender == InitRender /\ [][NextRender]_vars

(***************************************************************************)
(* Vocabulary of the properties.                                           *)
(***************************************************************************)
\* the positions in `calls` of the calls of one kind
CallsOf(op) == {k \in 1..Len(calls) : calls[k].op = op}

\* a subprocess result that is a failure: an I/O error or a non-zero exit
Failed(res) == res.tag = "Err" \/ res.status # 0

\* the k-th call is the merge-base lookup against `ref`
IsLookup(k, ref) ==
    /\ k \in 1..Len(calls)
    /\ calls[k].op = "merge-base"
    /\ calls[k].ref = ref

\* the review operation: the review subcommand, or no subcommand
Reviewing == command \in {"Review", "None"}

\* the order the claims give the kinds of external call
Rank(op) ==
    CASE op = "rev-parse" -> 0
      [] op = "merge-base" -> 1
      [] op = "diff" -> 2
      [] op = "chat" -> 3

\* the escape sequence in force at the k-th cell of a line
ActiveColor(line, k) ==
    LET before == {j \in 1..(k - 1) : line[j] \in Escapes} IN
    IF before = {} THEN "none"
    ELSE line[CHOOSE j \in before : \A i \in before : i <= j]

\* the terminal column (from 0) of the k-th cell of a line
Column(line, k) == Cardinality({j \in 1..(k - 1) : line[j] \notin Escapes})

\* the position of the first cell of a line that equals x
First(line, x) ==
    CHOOSE k \in 1..Len(line) : line[k] = x /\ \A j \in 1..(k - 1) : line[j] # x

\* the number of spaces a line starts with
LeadingSpaces(line) ==
    Cardinality({k \in 1..Len(line) : \A j \in 1..k : line[j] = " "})

\* the comment blocks printed so far, and the three entries of the i-th
Blocks == 1..shown

TagEntry(i) == stdout[3 * i]

ExcerptEntry(i) == stdout[3 * i + 1]

BodyEntry(i) == stdout[3 * i + 2]

\* the position of the closing bracket of the tag in a tag line
CloseBracket(i) == First(TagEntry(i), "]")

(***************************************************************************)
(* C1.  An explicit revision whose git rev-parse --verify fails (I/O error *)
(* or non-zero exit) ends the invocation with the Invalid git revision     *)
(* error naming that revision, and neither git merge-base, nor git diff,   *)
(* nor the chat request is ever issued, in the review operation and in     *)
(* show-diff alike.                                                        *)
(***************************************************************************)
C1_InvalidRevisionStops ==
    (CallsOf("rev-parse") # {} /\ Failed(calls[1].res)) =>
        /\ calls[1].op = "rev-parse"
        /\ pc = "done"
        /\ result = Error("Invalid git revision: {}", against.v, 0)
        /\ ~changes.some
        /\ CallsOf("merge-base") \cup CallsOf("diff") \cup CallsOf("chat") = {}

C1_Witness ==
    /\ command = "Review"
    /\ Len(calls) = 1
    /\ calls[1].op = "rev-parse"
    /\ calls[1].res.tag = "Ok"
    /\ calls[1].res.status = 1
    /\ pc = "done"

(***************************************************************************)
(* C2.  With no explicit revision, whenever both the origin/main and the   *)
(* origin/master merge-base lookups failed (I/O error or non-zero exit,    *)
(* whatever was on standard output), get_changes fails with a merge-base   *)
(* error and git diff is never invoked.                                    *)
(***************************************************************************)
C2_BothLookupsFailNoDiff ==
    (/\ ~against.some
     /\ IsLookup(1, "origin/main") /\ Failed(calls[1].res)
     /\ IsLookup(2, "origin/master") /\ Failed(calls[2].res)) =>
        /\ CallsOf("diff") = {}
        /\ pc = "done" =>
               /\ result.state = "err"
               /\ result.msg \in
                      {"Failed to run git merge-base",
                       "Failed to find merge base with origin/main or origin/master"}

(***************************************************************************)
(* C3.  With no explicit revision the origin/master lookup is made if and  *)
(* only if the origin/main lookup failed, and right after it; no error of  *)
(* the main attempt ever reaches the caller; and when main failed and      *)
(* master succeeded with a non-empty (trimmed) output, the base handed to  *)
(* git diff is exactly that trimmed output.                                *)
(***************************************************************************)
C3_MasterFallback ==
    /\ \A k \in CallsOf("merge-base") :
        /\ ~against.some
        /\ k \in {1, 2}
        /\ IsLookup(1, "origin/main")
        /\ k = 2 => IsLookup(2, "origin/master") /\ Failed(calls[1].res)
    /\ (IsLookup(1, "origin/main") /\ Failed(calls[1].res)) =>
        /\ (Len(calls) = 1 => pc = "master" /\ result = Running)
        /\ (Len(calls) > 1 => IsLookup(2, "origin/master"))
        /\ result.cause # 1
    /\ (IsLookup(1, "origin/main") /\ ~Failed(calls[1].res)) =>
        ~IsLookup(2, "origin/master") /\ pc # "master"
    /\ (IsLookup(2, "origin/master") /\ ~Failed(calls[2].res)) =>
        LET out == Trim(from_utf8_lossy(calls[2].res.stdout)) IN
        IF out = <<>>
        THEN /\ CallsOf("diff") = {}
             /\ result = Error("Failed to find merge base with origin/main or origin/master",
                               <<>>, 0)
        ELSE /\ base = Some(out)
             /\ \A d \in CallsOf("diff") : calls[d].text = out
             /\ result.msg \notin
                    {"Failed to run git merge-base",
                     "Failed to find merge base with origin/main or origin/master"}

C3_Witness ==
    /\ IsLookup(1, "origin/main")
    /\ calls[1].res.tag = "Err"
    /\ IsLookup(2, "origin/master")
    /\ calls[2].res = Output(0, <<" ", "b">>)
    /\ CallsOf("diff") = {3}
    /\ calls[3].text = <<"b">>

(***************************************************************************)
(* C4.  What get_changes returns successfully is never empty: a git diff   *)
(* that exits non-zero is a failure, a git diff that exits zero with empty *)
(* output is the No changes found failure, and the chat request never      *)
(* carries an empty change set as its user content.                        *)
(***************************************************************************)
C4_ChangesNonEmpty ==
    /\ changes.some => changes.v # <<>>
    /\ \A d \in CallsOf("diff") :
        LET res == calls[d].res IN
        /\ res.tag = "Err" =>
               result = Error("Failed to run git diff", <<>>, d) /\ ~changes.some
        /\ (res.tag = "Ok" /\ res.status # 0) =>
               /\ result = Error("git diff failed with status: {}", <<res.status>>, 0)
               /\ ~changes.some
        /\ (res.tag = "Ok" /\ res.status = 0 /\ res.stdout = <<>>) =>
               result = Error("No changes found", <<>>, 0) /\ ~changes.some
        /\ (res.tag = "Ok" /\ res.status = 0 /\ res.stdout # <<>>) =>
               changes.some /\ Len(changes.v) = Len(res.stdout)
    /\ \A c \in CallsOf("chat") : calls[c].text # <<>> /\ calls[c].text = changes.v

C4_Witness ==
    /\ CallsOf("diff") # {}
    /\ calls[Len(calls)].op = "diff"
    /\ calls[Len(calls)].res = Output(0, <<>>)
    /\ result.msg = "No changes found"

(***************************************************************************)
(* C5.  The external calls of an invocation form one sequence: at most two *)
(* git merge-base attempts, then at most one git diff, then at most one    *)
(* chat request (an explicit revision's single rev-parse comes first of    *)
(* all); the chat request directly follows a git diff that exited zero     *)
(* with non-empty output; show-diff never issues a chat request.           *)
(***************************************************************************)
C5_OneCallSequence ==
    /\ Cardinality(CallsOf("merge-base")) <= 2
    /\ Cardinality(CallsOf("diff")) <= 1
    /\ Cardinality(CallsOf("chat")) <= 1
    /\ Cardinality(CallsOf("rev-parse")) <= 1
    /\ \A i, j \in 1..Len(calls) : i < j => Rank(calls[i].op) <= Rank(calls[j].op)
    /\ \A c \in CallsOf("chat") :
        /\ c > 1
        /\ calls[c - 1].op = "diff"
        /\ calls[c - 1].res.tag = "Ok"
        /\ calls[c - 1].res.status = 0
        /\ calls[c - 1].res.stdout # <<>>
    /\ command = "ShowDiff" => CallsOf("chat") = {}

C5_Witness ==
    /\ Len(calls) = 4
    /\ calls[1].op = "merge-base"
    /\ calls[2].op = "merge-base"
    /\ calls[3].op = "diff"
    /\ calls[4].op = "chat"

(***************************************************************************)
(* C6.  In the review operation standard output stays empty unless the     *)
(* chat request has returned a parsed Review: when client construction,    *)
(* revision resolution, diff extraction or the chat request fails, nothing *)
(* (no header, no comment block) is printed and main returns an error.     *)
(***************************************************************************)
C6_NoPartialOutput ==
    Reviewing =>
        /\ stdout # <<>> =>
               \E c \in CallsOf("chat") : calls[c].res.tag = "Ok"
        /\ result.state = "err" => stdout = <<>>
        /\ (pc = "done" /\ \A c \in CallsOf("chat") : calls[c].res.tag # "Ok") =>
               result.state = "err" /\ stdout = <<>>

C6_Witness ==
    /\ Reviewing
    /\ CallsOf("chat") # {}
    /\ calls[Len(calls)].res.tag = "Err"
    /\ pc = "done"
    /\ result.state = "err"

(***************************************************************************)
(* C7.  When the explicit revision verifies, git diff is invoked with      *)
(* exactly that revision string as its base, and git merge-base is never   *)
(* invoked.                                                                *)
(***************************************************************************)
C7_ExplicitRevisionIsBase ==
    (CallsOf("rev-parse") # {} /\ ~Failed(calls[1].res)) =>
        /\ base = against
        /\ CallsOf("merge-base") = {}
        /\ \A d \in CallsOf("diff") : calls[d].text = against.v
        /\ (Len(calls) = 1 => pc = "diff")

C7_Witness ==
    /\ against = Some(<<" ", "r">>)
    /\ CallsOf("diff") = {2}
    /\ calls[2].text = <<" ", "r">>

(***************************************************************************)
(* C8.  Rendering is order-preserving and complete: after the two header   *)
(* entries the report holds one block of three entries per comment printed *)
(* so far, the i-th block being the one built from the i-th comment of the *)
(* Review, and when main returns Ok every comment has its block.           *)
(***************************************************************************)
C8_RenderInOrder ==
    (Reviewing /\ stdout # <<>>) =>
        /\ Len(stdout) = 2 + 3 * shown
        /\ stdout[2] = Underline
        /\ shown <= Len(review)
        /\ result.state = "ok" => shown = Len(review)
        /\ \A i \in Blocks :
            LET c == review[i] IN
            /\ TagEntry(i) = TagLine(c)
            /\ ExcerptEntry(i) = ExcerptLine(c)
            /\ BodyEntry(i) = BodyLine(c)

C8_Witness ==
    /\ result.state = "ok"
    /\ Len(review) = 2
    /\ review[1].comment_type = "Issue"
    /\ review[2].comment_type = "Idea"
    /\ Len(stdout) = 8

(***************************************************************************)
(* C9 as claimed.  On the tag line every printed cell, the bracketed tag   *)
(* and the text " in: <location>" after it, is in the category's color,    *)
(* and the reset is the last thing on the line.                            *)
(***************************************************************************)
C9_WholeTagLineColored ==
    \A i \in Blocks :
        LET line == TagEntry(i) IN
        /\ \A k \in 1..Len(line) :
            line[k] \notin Escapes =>
                ActiveColor(line, k) = Color(review[i].comment_type)
        /\ line[Len(line)] = reset
        /\ \A k \in 1..(Len(line) - 1) : line[k] # reset

(***************************************************************************)
(* C9 as amended.  On the tag line only the bracketed tag [<category>] is  *)
(* in the category's color: the reset is emitted right after the closing   *)
(* bracket, and " in: <location>" follows it uncolored, with no escape     *)
(* sequence after it.                                                      *)
(***************************************************************************)
C9_OnlyTagColored ==
    \A i \in Blocks :
        LET line == TagEntry(i)
            t == review[i].comment_type
            close == CloseBracket(i)
        IN
        /\ line[1] = Color(t)
        /\ SubSeq(line, 2, close) = <<"[">> \o Display(t) \o <<"]">>
        /\ \A k \in 2..close : ActiveColor(line, k) = Color(t)
        /\ line[close + 1] = reset
        /\ SubSeq(line, close + 2, Len(line)) = <<" ", "i", "n", ":", " ">> \o review[i].in
        /\ \A k \in (close + 2)..Len(line) :
            line[k] \notin Escapes /\ ActiveColor(line, k) = reset

C9_Witness ==
    /\ shown = 1
    /\ review[1].comment_type = "Issue"
    /\ TagEntry(1)[9] = reset
    /\ TagEntry(1)[Len(TagEntry(1))] = "1"

(***************************************************************************)
(* C10 as claimed.  The number of spaces before line: is the printed       *)
(* length of [<category>] plus one, so that line: starts in the column     *)
(* where in: starts on the tag line.                                       *)
(***************************************************************************)
C10_IndentIsBracketedPlusOne ==
    \A i \in Blocks :
        LET tag == TagEntry(i)
            excerpt == ExcerptEntry(i)
            bracketed == <<"[">> \o Display(review[i].comment_type) \o <<"]">>
        IN
        /\ LeadingSpaces(excerpt) = Len(bracketed) + 1
        /\ Column(excerpt, First(excerpt, "l")) = Column(tag, First(tag, ":") - 2)

(***************************************************************************)
(* C10 as amended.  For each of the eight categories the number of spaces  *)
(* before line: is the length of the category name without its brackets    *)
(* plus one (the printed length of [<category>] minus one), so that line:  *)
(* starts two columns left of in: and the colons of the two lines, and the *)
(* texts after them, fall in the same column.                              *)
(***************************************************************************)
C10_IndentIsNamePlusOne ==
    \A i \in Blocks :
        LET tag == TagEntry(i)
            excerpt == ExcerptEntry(i)
            name == Display(review[i].comment_type)
            bracketed == <<"[">> \o name \o <<"]">>
        IN
        /\ LeadingSpaces(excerpt) = Len(name) + 1
        /\ LeadingSpaces(excerpt) = Len(bracketed) - 1
        /\ SubSeq(excerpt, LeadingSpaces(excerpt) + 1, LeadingSpaces(excerpt) + 6)
               = <<"l", "i", "n", "e", ":", " ">>
        /\ Column(excerpt, First(excerpt, "l")) + 2 = Column(tag, First(tag, ":") - 2)
        /\ Column(excerpt, First(excerpt, ":")) = Column(tag, First(tag, ":"))

C10_Witness ==
    /\ shown = 2
    /\ review[1].comment_type = "UnnecessaryComment"
    /\ review[2].comment_type = "Issue"
    /\ LeadingSpaces(ExcerptEntry(1)) = 19
    /\ LeadingSpaces(ExcerptEntry(2)) = 6

=============================================================================
